---- MODULE Spec2Model ----
(***************************************************************************)
(* A model of src/src/api.js: the KoalaNLP wrapper classes Tagger, Parser, *)
(* SentenceSplitter and Dictionary, the initialize function and the result *)
(* converters (convertWord, convertSentence, converter).                   *)
(*                                                                         *)
(* JavaScript values that occur in polymorphic positions are records with  *)
(* a "type" field (string, Array, Sentence, Function, undefined), so that  *)
(* a Sentence and a one-element Array holding it are different values.     *)
(* Backend (JVM) objects are records with an "items" field read through    *)
(* sizeSync / lengthSync / applySync, which are zero-based as in the code. *)
(***************************************************************************)
EXTENDS Integers, Sequences, FiniteSets, TLC

(***************************************************************************)
(* Bounds of the model.                                                    *)
(***************************************************************************)
MaxSents == 2
MaxWords == 2
MaxMorphs == 2
MaxDeps == 1
MaxVariant == 2

(***************************************************************************)
(* JavaScript values.                                                      *)
(***************************************************************************)
Undefined == [type |-> "undefined"]
Str(s) == [type |-> "string", val |-> s]
Arr(items) == [type |-> "Array", items |-> items]
Func == [type |-> "Function"]

(***************************************************************************)
(* Backend result objects (Scala sequences and KoalaNLP JVM objects).      *)
(***************************************************************************)
RawSeq(items) == [type |-> "JavaSeq", items |-> items]
sizeSync(result) == Len(result.items)
lengthSync(result) == Len(result.items)
applySync(result, i) == result.items[i + 1]

PosTags == <<"NNG", "VV", "JKS">>
RawRel(head, target) ==
    [head |-> head, relation |-> "VP", rawRel |-> "vp", target |-> target]
RawMorph(j, k) ==
    [surface |-> <<"m", j, k>>,
     tag |-> PosTags[(k % 3) + 1],
     rawTag |-> <<"raw", PosTags[(k % 3) + 1]>>]
\* The backend names the target of an edge itself: the targets below run over
\* 0..nw, so that some edges point at a word of the sentence and some past its
\* last word.
RawWord(j, nm, nd, nw, v) ==
    [type |-> "JavaWord",
     surface |-> <<"w", j>>,
     items |-> [k \in 1..nm |-> RawMorph(j, k - 1)],
     deps |-> RawSeq([k \in 1..nd |-> RawRel(j, (j + k + v) % (nw + 1))])]
RawSentence(nw, v) ==
    [type |-> "JavaSentence",
     items |-> [j \in 1..nw |->
                  RawWord(j - 1, (j - 1 + v) % (MaxMorphs + 1),
                          (j - 1 + v) % (MaxDeps + 1), nw, v)],
     root |-> [deps |-> RawSeq([k \in 1..(IF nw = 0 THEN 0 ELSE v % (MaxDeps + 1))
                                  |-> RawRel(-1, (k - 1 + 2 * v) % (nw + 1))])]]
RawParagraph(ns, v) ==
    RawSeq([i \in 1..ns |-> RawSentence((i - 1 + v) % (MaxWords + 1), v)])

RawSentences == {RawSentence(nw, v) : nw \in 0..MaxWords, v \in 0..MaxVariant}
RawParagraphs == {RawParagraph(ns, v) : ns \in 0..MaxSents, v \in 0..MaxVariant}

(***************************************************************************)
(* The data classes of koalanlp/data, as the converters construct them.    *)
(***************************************************************************)
Morpheme(surface, tag, rawTag, index) ==
    [surface |-> surface, tag |-> tag, rawTag |-> rawTag, index |-> index]
Relationship(head, relation, rawRel, target) ==
    [head |-> head, relation |-> relation, rawRel |-> rawRel, target |-> target]
Word(surface, morphemes, index) ==
    [surface |-> surface, morphemes |-> morphemes, index |-> index,
     dependents |-> <<>>]
Sentence(words, reference) ==
    [type |-> "Sentence", words |-> words, reference |-> reference,
     root |-> [dependents |-> <<>>]]

(***************************************************************************)
(* The converters.  Each for-loop is a recursive operator over the loop    *)
(* index, pushing onto the buffer as the code does.                        *)
(***************************************************************************)
RECURSIVE convertDependentsSwapped(_, _, _, _)
convertDependentsSwapped(dependents, i, len, buffer) ==
    IF i < len
    THEN LET rel == applySync(dependents, i)
             relationship ==
                 Relationship(rel.target, rel.relation, rel.rawRel, rel.head)
         IN convertDependentsSwapped(dependents, i + 1, len,
                                     Append(buffer, relationship))
    ELSE buffer

RECURSIVE convertDependents(_, _, _, _)
convertDependents(dependents, i, len, buffer) ==
    IF i < len
    THEN LET rel == applySync(dependents, i)
             relationship ==
                 Relationship(rel.head, rel.relation, rel.rawRel, rel.target)
         IN convertDependents(dependents, i + 1, len, Append(buffer, relationship))
    ELSE buffer

RECURSIVE convertMorphemes(_, _, _, _)
convertMorphemes(result, i, len, buffer) ==
    IF i < len
    THEN LET morphs == applySync(result, i)
             morpheme == Morpheme(morphs.surface, morphs.tag, morphs.rawTag, i)
         IN convertMorphemes(result, i + 1, len, Append(buffer, morpheme))
    ELSE buffer

convertWordShifted(result, widx) ==
    LET buffer == convertMorphemes(result, 0, lengthSync(result), <<>>)
        shifted == [i \in 1..Len(buffer) |->
                      [buffer[i] EXCEPT !.index = buffer[i].index + 1]]
        word == Word(result.surface, shifted, widx + 1)
    IN [word EXCEPT !.dependents =
            convertDependents(result.deps, 0, sizeSync(result.deps), <<>>)]

convertWord(result, widx) ==
    LET buffer == convertMorphemes(result, 0, lengthSync(result), <<>>)
        word == Word(result.surface, buffer, widx)
    IN [word EXCEPT !.dependents =
            convertDependents(result.deps, 0, sizeSync(result.deps), <<>>)]

RECURSIVE convertWords(_, _, _, _)
convertWords(result, i, len, words) ==
    IF i < len
    THEN convertWords(result, i + 1, len,
                      Append(words, convertWord(applySync(result, i), i)))
    ELSE words

convertSentence(result) ==
    LET words == convertWords(result, 0, lengthSync(result), <<>>)
        sentence == Sentence(words, result)
        dependents == result.root.deps
    IN [sentence EXCEPT !.root.dependents =
            convertDependents(dependents, 0, sizeSync(dependents), <<>>)]

RECURSIVE convertSentences(_, _, _, _)
convertSentences(result, i, len, buffer) ==
    IF i < len
    THEN convertSentences(result, i + 1, len,
                          Append(buffer, convertSentence(applySync(result, i))))
    ELSE buffer

converterPastEnd(result) ==
    Arr(Append(convertSentences(result, 0, sizeSync(result), <<>>), Undefined))

converterSkipFirst(result) ==
    Arr(convertSentences(result, 1, sizeSync(result), <<>>))

converter(result) ==
    Arr(convertSentences(result, 0, sizeSync(result), <<>>))

RECURSIVE copyStrings(_, _, _, _)
copyStrings(result, i, len, buffer) ==
    IF i < len
    THEN copyStrings(result, i + 1, len, Append(buffer, applySync(result, i)))
    ELSE buffer

convertSentenceStr(result) ==
    Arr(copyStrings(result, 0, sizeSync(result), <<>>))

(***************************************************************************)
(* Errors, backend outcomes and the object handed to the caller's callback.*)
(***************************************************************************)
Causes == {"timeout", "jvm"}
BackendError(method, cause) == [type |-> "Error", from |-> method, cause |-> cause]
AssertionError == [type |-> "Error", from |-> "assert", cause |-> "assert"]
TypeError == [type |-> "Error", from |-> "TypeError", cause |-> "java"]
NoError == [type |-> "null"]
False == [type |-> "boolean", val |-> FALSE]

RawStrings == {RawSeq([i \in 1..n |-> Str(<<"s", i>>)]) : n \in 0..MaxSents}

\* What the backend can answer to a request whose result has the given kind.
RawResults(kind) ==
    CASE kind = "paragraph" -> RawParagraphs
      [] kind = "sentence" -> RawSentences
      [] kind = "strings" -> RawStrings
Outcomes(method, kind) ==
    {[failed |-> FALSE, err |-> NoError, result |-> r] : r \in RawResults(kind)}
    \cup {[failed |-> TRUE, err |-> BackendError(method, c), result |-> Undefined] :
            c \in Causes}

CbArg(error, result) == [error |-> error, result |-> result]
Request(name, arg) == [name |-> name, arg |-> arg]

(***************************************************************************)
(* The families of util.TYPES that api.js names, and one unregistered name.*)
(***************************************************************************)
Types == {"EUNJEON", "KKMA", "HANNANUM", "TWITTER", "RHINO"}
TypeArgs == Types \cup {"unknown"}

VARIABLES
    java,      \* the module's backend handle: "empty" ({}) or "jvm"
    init,      \* progress of initialize: state, callback supplied, callback calls,
               \* and the handle that was in place when the callback ran
    obj,       \* the wrapper instance the caller holds
    call,      \* the API call under way or last made: op, callback supplied, arg
    pending,   \* the non-blocking backend request in flight, if any
    log,       \* backend calls issued on behalf of the call, in order
    got,       \* what the backend answered to them, in order
    ret,       \* how the call itself ended: returned a value or threw
    cbs,       \* the objects passed to the caller's callback, in order
    dict,      \* the entries of the user dictionary
    lastSync   \* the caller's note of its last successful blocking call

vars == <<java, init, obj, call, pending, log, got, ret, cbs, dict, lastSync>>

NoObj == [class |-> "none", tagger |-> FALSE]
NoCall == [op |-> "none", callback |-> Undefined, arg |-> Undefined]
NoPending == [method |-> "none", handler |-> "none", kind |-> "none"]
NoReturn == [kind |-> "none", val |-> Undefined]
Returned(v) == [kind |-> "return", val |-> v]
Thrown(e) == [kind |-> "throw", val |-> e]
NoNote == [op |-> "none", arg |-> Undefined, got |-> <<>>, val |-> Undefined]

Init ==
    /\ java = "empty"
    /\ init = [state |-> "idle", callback |-> FALSE, calls |-> 0, saw |-> "none"]
    /\ obj = NoObj
    /\ call = NoCall
    /\ pending = NoPending
    /\ log = <<>>
    /\ got = <<>>
    /\ ret = NoReturn
    /\ cbs = <<>>
    /\ dict = {}
    /\ lastSync = NoNote

\* Nothing is in flight.
Idle == pending = NoPending

\* The caller starts a call once it has put the previous call's outcome aside
\* (Forget), or repeats in callback mode the blocking call it has noted.
CanCall(op, arg, callback) ==
    /\ Idle
    /\ \/ call.op = "none"
       \/ lastSync.op = op /\ lastSync.arg = arg /\ callback # Undefined

Forget ==
    /\ Idle
    /\ call.op # "none"
    /\ call' = NoCall
    /\ log' = <<>>
    /\ got' = <<>>
    /\ ret' = NoReturn
    /\ cbs' = <<>>
    /\ lastSync' = NoNote
    /\ UNCHANGED <<java, init, obj, pending, dict>>

\* The caller notes a blocking call that returned, to repeat it in callback mode.
NoteBlocking ==
    /\ Idle
    /\ lastSync = NoNote
    /\ call.op \in {"tag", "tagSentence", "parse", "parseSentence", "sentences",
                    "sentencesByKoala"}
    /\ call.callback = Undefined
    /\ ret.kind = "return"
    /\ lastSync' = [op |-> call.op, arg |-> call.arg, got |-> got, val |-> ret.val]
    /\ UNCHANGED <<java, init, obj, call, pending, log, got, ret, cbs, dict>>

(***************************************************************************)
(* initialize(obj, callback)                                               *)
(***************************************************************************)
Initialize(callback) ==
    /\ init.state = "idle"
    /\ init' = [state |-> "loading", callback |-> callback, calls |-> 0,
                saw |-> "none"]
    /\ UNCHANGED <<java, obj, call, pending, log, got, ret, cbs, dict, lastSync>>

\* A completion function that calls back before it installs the handle.
LoaderDoneCallbackFirst ==
    /\ init.state = "loading"
    /\ init' = [init EXCEPT !.state = "done",
                            !.calls = IF init.callback THEN @ + 1 ELSE @,
                            !.saw = IF init.callback THEN java ELSE @]
    /\ java' = "jvm"
    /\ UNCHANGED <<obj, call, pending, log, got, ret, cbs, dict, lastSync>>

\* function(jvm){ java = jvm; ...; if(callback) callback(); }
LoaderDone ==
    /\ init.state = "loading"
    /\ java' = "jvm"
    /\ init' = [init EXCEPT !.state = "done",
                            !.calls = IF init.callback THEN @ + 1 ELSE @,
                            !.saw = IF init.callback THEN java' ELSE @]
    /\ UNCHANGED <<obj, call, pending, log, got, ret, cbs, dict, lastSync>>

(***************************************************************************)
(* Constructors.  A constructor that throws leaves the caller without the  *)
(* instance.                                                               *)
(***************************************************************************)
Construct(op, arg, gate, requests, made) ==
    /\ call' = [op |-> op, callback |-> Undefined, arg |-> arg]
    /\ got' = <<>>
    /\ cbs' = <<>>
    /\ IF ~gate
       THEN /\ ret' = Thrown(AssertionError)
            /\ log' = <<>>
            /\ obj' = obj
       ELSE IF java = "empty"
       THEN /\ ret' = Thrown(TypeError)
            /\ log' = <<>>
            /\ obj' = obj
       ELSE /\ ret' = Returned(Undefined)
            /\ log' = requests
            /\ obj' = made
    /\ UNCHANGED <<java, init, pending, dict, lastSync>>

ImportAndNew(type, class) ==
    <<Request("import", <<type, class>>), Request("new", <<type, class>>)>>

NewTagger(taggerType) ==
    /\ CanCall("new Tagger", <<taggerType>>, Undefined)
    /\ Construct("new Tagger", <<taggerType>>, TRUE,
                 ImportAndNew(taggerType, "Tagger"),
                 [class |-> "Tagger", tagger |-> TRUE])

ParserGateAny(parserType) == TRUE
ParserGate(parserType) == parserType = "KKMA" \/ parserType = "HANNANUM"

NewParser(parserType, taggerType) ==
    /\ CanCall("new Parser", <<parserType, taggerType>>, Undefined)
    /\ Construct("new Parser", <<parserType, taggerType>>, ParserGate(parserType),
                 (IF taggerType # "undefined"
                  THEN ImportAndNew(taggerType, "Tagger") ELSE <<>>)
                 \o ImportAndNew(parserType, "Parser"),
                 [class |-> "Parser", tagger |-> taggerType # "undefined"])

SplitterGate(splitterType) == splitterType = "TWITTER" \/ splitterType = "HANNANUM"

NewSentenceSplitter(splitterType) ==
    /\ CanCall("new SentenceSplitter", <<splitterType>>, Undefined)
    /\ Construct("new SentenceSplitter", <<splitterType>>, SplitterGate(splitterType),
                 ImportAndNew(splitterType, "SentenceSplitter"),
                 [class |-> "SentenceSplitter", tagger |-> FALSE])

DictionaryGate(dicType) == dicType # "RHINO"

NewDictionary(dicType) ==
    /\ CanCall("new Dictionary", <<dicType>>, Undefined)
    /\ Construct("new Dictionary", <<dicType>>, DictionaryGate(dicType),
                 <<Request("callStaticMethodSync", <<dicType, "JavaDictionary", "get">>)>>,
                 [class |-> "Dictionary", tagger |-> FALSE])

(***************************************************************************)
(* The two calling modes.  An operation takes the callback-completion form *)
(* when the callback argument is truthy.                                   *)
(***************************************************************************)
Callbacks == {Undefined, Func}
UseCallbackAlways(callback) == TRUE
UseCallback(callback) == callback # Undefined

\* The value a blocking call returns for a raw result of the given kind.
ReturnValue(kind, result) ==
    CASE kind = "paragraph" -> converter(result)
      [] kind = "sentence" -> convertSentence(result)
      [] kind = "strings" -> convertSentenceStr(result)

\* The result field a callback receives for a raw result of the given kind.
DeliveredValue(kind, result) ==
    CASE kind = "paragraph" -> converter(result)
      [] kind = "sentence" -> Arr(<<convertSentence(result)>>)
      [] kind = "strings" -> convertSentenceStr(result)

\* function (err, result) { if (err) callback({error: err, result: []});
\*                          else callback({error: false, result: ...}) }
\* as the calls of the caller's callback and the backend requests it makes.
RespondTwice(out, kind) ==
    [cbs |-> IF out.failed
             THEN <<CbArg(out.err, Arr(<<>>))>>
             ELSE <<CbArg(False, DeliveredValue(kind, out.result)),
                    CbArg(False, DeliveredValue(kind, out.result))>>,
     requests |-> <<>>]
RespondSwallow(out, kind) ==
    [cbs |-> IF out.failed
             THEN <<CbArg(False, Arr(<<>>))>>
             ELSE <<CbArg(False, DeliveredValue(kind, out.result))>>,
     requests |-> <<>>]
RespondPartial(out, kind) ==
    [cbs |-> IF out.failed
             THEN <<CbArg(out.err, Arr(<<Undefined>>))>>
             ELSE <<CbArg(False, DeliveredValue(kind, out.result))>>,
     requests |-> <<>>]
Respond(out, kind) ==
    [cbs |-> IF out.failed
             THEN <<CbArg(out.err, Arr(<<>>))>>
             ELSE <<CbArg(False, DeliveredValue(kind, out.result))>>,
     requests |-> <<>>]

\* The tagging stage's completion inside Parser.parse / Parser.parseSentence.
StageOneNoShortCircuit(out, kind) ==
    [cbs |-> <<>>, requests |-> <<Request("parse", out.result)>>]
StageOneMaterialized(out, kind) ==
    IF out.failed
    THEN [cbs |-> <<CbArg(out.err, Arr(<<>>))>>, requests |-> <<>>]
    ELSE [cbs |-> <<>>,
          requests |-> <<Request("parse", DeliveredValue(kind, out.result))>>]
StageOne(out, kind) ==
    IF out.failed
    THEN [cbs |-> <<CbArg(out.err, Arr(<<>>))>>, requests |-> <<>>]
    ELSE [cbs |-> <<>>, requests |-> <<Request("parse", out.result)>>]

\* A rejection that goes to the caller's callback when there is one.
RejectToCallback(op, arg, callback, err) ==
    /\ call' = [op |-> op, callback |-> callback, arg |-> arg]
    /\ log' = <<>>
    /\ got' = <<>>
    /\ cbs' = IF callback # Undefined THEN <<CbArg(err, Arr(<<>>))>> ELSE <<>>
    /\ ret' = IF callback # Undefined THEN Returned(Undefined) ELSE Thrown(err)
    /\ UNCHANGED <<java, init, obj, pending, dict, lastSync>>

\* A call that throws before any backend request.
Reject(op, arg, callback, err) ==
    /\ call' = [op |-> op, callback |-> callback, arg |-> arg]
    /\ log' = <<>>
    /\ got' = <<>>
    /\ cbs' = <<>>
    /\ ret' = Thrown(err)
    /\ UNCHANGED <<java, init, obj, pending, dict, lastSync>>

\* A call that tells the caller's callback of an empty result on the spot.
SingleEager(op, arg, callback, method, marg, kind) ==
    /\ call' = [op |-> op, callback |-> callback, arg |-> arg]
    /\ IF UseCallback(callback)
       THEN /\ log' = <<Request(method, marg)>>
            /\ got' = <<>>
            /\ cbs' = <<CbArg(False, Arr(<<>>))>>
            /\ pending' = pending
            /\ ret' = Returned(Undefined)
       ELSE \E out \in Outcomes(method \o "Sync", kind) :
            /\ log' = <<Request(method \o "Sync", marg)>>
            /\ got' = <<out>>
            /\ cbs' = <<>>
            /\ pending' = pending
            /\ ret' = IF out.failed THEN Thrown(out.err)
                      ELSE Returned(ReturnValue(kind, out.result))
    /\ UNCHANGED <<java, init, obj, dict, lastSync>>

\* One backend request, in the form the mode selects.
Single(op, arg, callback, method, marg, kind) ==
    /\ call' = [op |-> op, callback |-> callback, arg |-> arg]
    /\ cbs' = <<>>
    /\ IF UseCallback(callback)
       THEN /\ log' = <<Request(method, marg)>>
            /\ got' = <<>>
            /\ pending' = [method |-> method, handler |-> "final", kind |-> kind]
            /\ ret' = Returned(Undefined)
       ELSE \E out \in Outcomes(method \o "Sync", kind) :
            /\ log' = <<Request(method \o "Sync", marg)>>
            /\ got' = <<out>>
            /\ pending' = pending
            /\ ret' = IF out.failed THEN Thrown(out.err)
                      ELSE Returned(ReturnValue(kind, out.result))
    /\ UNCHANGED <<java, init, obj, dict, lastSync>>

\* A pipeline that issues the parse request along with the tagging request.
PipelineEager(op, arg, callback, method, kind) ==
    /\ call' = [op |-> op, callback |-> callback, arg |-> arg]
    /\ cbs' = <<>>
    /\ got' = <<>>
    /\ log' = <<Request(method, arg), Request("parse", arg)>>
    /\ pending' = [method |-> method, handler |-> "stageOne", kind |-> kind]
    /\ ret' = Returned(Undefined)
    /\ UNCHANGED <<java, init, obj, dict, lastSync>>

\* The tag-then-parse pipeline of a Parser with an auxiliary tagger.
Pipeline(op, arg, callback, method, kind) ==
    /\ call' = [op |-> op, callback |-> callback, arg |-> arg]
    /\ cbs' = <<>>
    /\ IF UseCallback(callback)
       THEN /\ log' = <<Request(method, arg)>>
            /\ got' = <<>>
            /\ pending' = [method |-> method, handler |-> "stageOne", kind |-> kind]
            /\ ret' = Returned(Undefined)
       ELSE \E tagged \in Outcomes(method \o "Sync", kind) :
            /\ pending' = pending
            /\ IF tagged.failed
               THEN /\ log' = <<Request(method \o "Sync", arg)>>
                    /\ got' = <<tagged>>
                    /\ ret' = Thrown(tagged.err)
               ELSE \E parsed \in Outcomes("parseSync", kind) :
                    /\ log' = <<Request(method \o "Sync", arg),
                                Request("parseSync", tagged.result)>>
                    /\ got' = <<tagged, parsed>>
                    /\ ret' = IF parsed.failed THEN Thrown(parsed.err)
                              ELSE Returned(ReturnValue(kind, parsed.result))
    /\ UNCHANGED <<java, init, obj, dict, lastSync>>

(***************************************************************************)
(* Arguments the caller passes.                                            *)
(***************************************************************************)
Texts == {Str("text")}
TaggedParagraphs == {converter(r) : r \in RawParagraphs}
TaggedSentences == {convertSentence(r) : r \in RawSentences}

(***************************************************************************)
(* Tagger                                                                  *)
(***************************************************************************)
Tag(paragraph, callback) ==
    /\ CanCall("tag", paragraph, callback)
    /\ obj.class = "Tagger"
    /\ Single("tag", paragraph, callback, "tag", paragraph, "paragraph")

TagSentence(sentence, callback) ==
    /\ CanCall("tagSentence", sentence, callback)
    /\ obj.class = "Tagger"
    /\ Single("tagSentence", sentence, callback, "tagSentence", sentence, "sentence")

(***************************************************************************)
(* Parser                                                                  *)
(***************************************************************************)
\* Array.isArray(paragraph) && paragraph[0] instanceof Sentence
IsSentences(paragraph) ==
    /\ paragraph.type = "Array"
    /\ Len(paragraph.items) > 0
    /\ paragraph.items[1].type = "Sentence"

RECURSIVE pushReferences(_, _, _)
pushReferences(paragraph, i, target) ==
    IF i < Len(paragraph.items)
    THEN pushReferences(paragraph, i + 1,
                        Append(target, paragraph.items[i + 1].reference))
    ELSE target

ParseTarget(paragraph) ==
    IF IsSentences(paragraph)
    THEN Arr(pushReferences(paragraph, 0, <<>>))
    ELSE paragraph

Parse(paragraph, callback) ==
    /\ CanCall("parse", paragraph, callback)
    /\ obj.class = "Parser"
    /\ IF obj.tagger /\ ~IsSentences(paragraph)
       THEN Pipeline("parse", paragraph, callback, "tag", "paragraph")
       ELSE Single("parse", paragraph, callback, "parse", ParseTarget(paragraph),
                   "paragraph")

IsSentence(sentence) == sentence.type = "Sentence"

ParseSentenceTarget(sentence) ==
    IF IsSentence(sentence) THEN sentence.reference ELSE sentence

ParseSentence(sentence, callback) ==
    /\ CanCall("parseSentence", sentence, callback)
    /\ obj.class = "Parser"
    /\ IF obj.tagger /\ ~IsSentence(sentence)
       THEN Pipeline("parseSentence", sentence, callback, "tagSentence", "sentence")
       ELSE Single("parseSentence", sentence, callback, "parse",
                   ParseSentenceTarget(sentence), "sentence")

(***************************************************************************)
(* SentenceSplitter                                                        *)
(***************************************************************************)
Sentences(paragraph, callback) ==
    /\ CanCall("sentences", paragraph, callback)
    /\ obj.class = "SentenceSplitter"
    /\ Single("sentences", paragraph, callback, "sentences", paragraph, "strings")

SentencesByKoala(paragraph, callback) ==
    /\ CanCall("sentencesByKoala", paragraph, callback)
    /\ IF ~IsSentence(paragraph)
       THEN Reject("sentencesByKoala", paragraph, callback, AssertionError)
       ELSE IF java = "empty"
       THEN Reject("sentencesByKoala", paragraph, callback, TypeError)
       ELSE Single("sentencesByKoala", paragraph, callback, "callStaticMethod",
                   paragraph.reference, "paragraph")

(***************************************************************************)
(* Completion of the non-blocking backend request in flight: the backend   *)
(* calls the function the wrapper passed, with an error or a raw result.   *)
(***************************************************************************)
Complete(step(_, _)) ==
    /\ \E out \in Outcomes(pending.method, pending.kind) :
         /\ got' = Append(got, out)
         /\ cbs' = cbs \o step(out, pending.kind).cbs
         /\ log' = log \o step(out, pending.kind).requests
         /\ pending' = IF step(out, pending.kind).requests = <<>>
                       THEN NoPending
                       ELSE [method |-> "parse", handler |-> "final",
                             kind |-> pending.kind]
    /\ UNCHANGED <<java, init, obj, call, ret, dict, lastSync>>

BackendCompletes ==
    /\ pending.handler = "final"
    /\ Complete(Respond)

TaggingCompletes ==
    /\ pending.handler = "stageOne"
    /\ Complete(StageOne)

(***************************************************************************)
(* Dictionary.  Its methods declare no callback parameter: a function      *)
(* passed after the declared arguments of addUserDictionary is ignored.    *)
(***************************************************************************)
MaxEntries == 2
MorphNames == <<"morphA", "morphB", "morphC", "morphD">>
TagNames == <<"NNG", "NNP", "VV", "JKS">>
MorphArrays == {Arr([i \in 1..n |-> Str(MorphNames[((i - 1) % 4) + 1])]) : n \in 0..MaxEntries}
TagArrays == {Arr([i \in 1..n |-> Str(TagNames[((i - 1) % 4) + 1])]) : n \in 0..MaxEntries}
MorphArgs == {Str(MorphNames[1])} \cup MorphArrays
TagArgs == {Str(TagNames[1])} \cup TagArrays

IsArray(v) == v.type = "Array"

PosWithName(tag) ==
    Request("callStaticMethodSync", <<"kr.bydelta.koala.POS", "withName", tag>>)

\* morphToTuple(obj, tag): the tuple it builds and the backend calls it makes.
morphToTuple(o, tag) ==
    LET morph == IF tag # Undefined THEN o ELSE o.morph
        pos == IF tag # Undefined THEN tag ELSE o.tag
    IN [tuple |-> <<morph, pos>>,
        requests |-> <<PosWithName(pos),
                       Request("newInstanceSync", <<"scala.Tuple2", morph, pos>>)>>]

RECURSIVE pushTuples(_, _, _, _)
pushTuples(morph, tag, i, requests) ==
    IF i < Len(morph.items)
    THEN pushTuples(morph, tag, i + 1,
                    requests \o morphToTuple(morph.items[i + 1],
                                             tag.items[i + 1]).requests)
    ELSE requests

ValidEntriesAtMost(morph, tag) ==
    /\ IsArray(morph) = IsArray(tag)
    /\ IsArray(morph) => Len(morph.items) <= Len(tag.items)
ValidEntries(morph, tag) ==
    /\ IsArray(morph) = IsArray(tag)
    /\ IsArray(morph) => Len(morph.items) = Len(tag.items)

AddUserDictionary(morph, tag, callback) ==
    /\ CanCall("addUserDictionary", <<morph, tag>>, Undefined)
    /\ obj.class = "Dictionary"
    /\ IF ~ValidEntries(morph, tag)
       THEN Reject("addUserDictionary", <<morph, tag>>, callback, AssertionError)
       ELSE /\ call' = [op |-> "addUserDictionary", callback |-> callback,
                        arg |-> <<morph, tag>>]
            /\ got' = <<>>
            /\ cbs' = <<>>
            /\ ret' = Returned(Undefined)
            /\ IF IsArray(morph)
               THEN /\ log' = pushTuples(morph, tag, 0, <<>>)
                              \o <<Request("addUserDictionarySync", <<morph, tag>>)>>
                    /\ dict' = dict \cup {<<morph.items[i], tag.items[i]>> :
                                            i \in 1..Len(morph.items)}
               ELSE /\ log' = <<PosWithName(tag),
                                Request("addUserDictionarySync", <<morph, tag>>)>>
                    /\ dict' = dict \cup {<<morph, tag>>}
            /\ UNCHANGED <<java, init, obj, pending, lastSync>>

\* contains(word, ...posTag): posTag is the array of the remaining arguments.
Bool(b) == [type |-> "boolean", val |-> b]
ContainsTags(posTag) ==
    IF posTag # Undefined THEN posTag ELSE Arr(<<Str("NNP"), Str("NNG")>>)

RECURSIVE pushPosTags(_, _, _)
pushPosTags(tags, i, requests) ==
    IF i < Len(tags.items)
    THEN pushPosTags(tags, i + 1, Append(requests, PosWithName(tags.items[i + 1])))
    ELSE requests

Contains(word, posTag) ==
    /\ CanCall("contains", <<word, posTag>>, Undefined)
    /\ obj.class = "Dictionary"
    /\ LET tags == ContainsTags(posTag)
           posSet == {tags.items[i] : i \in 1..Len(tags.items)}
       IN /\ call' = [op |-> "contains", callback |-> Undefined,
                      arg |-> <<word, posTag>>]
          /\ log' = pushPosTags(tags, 0, <<>>)
                    \o <<Request("callStaticMethodSync",
                                 <<"scala.Predef", "genericArrayOps", tags>>),
                         Request("toSetSync", posSet),
                         Request("containsSync", <<word, posSet>>)>>
          /\ ret' = Returned(Bool(\E t \in posSet : <<word, t>> \in dict))
    /\ got' = <<>>
    /\ cbs' = <<>>
    /\ UNCHANGED <<java, init, obj, pending, dict, lastSync>>

\* getNotExists(onlySystemDic, ...word): word is the array of {morph, tag}.
WordArrays ==
    {Arr([i \in 1..n |-> [morph |-> Str(MorphNames[((i - 1) % 4) + 1]),
                          tag |-> Str(TagNames[((i - 1) % 4) + 1])]]) :
        n \in 0..MaxEntries}

RECURSIVE pushEntries(_, _, _)
pushEntries(word, i, acc) ==
    IF i < Len(word.items)
    THEN LET made == morphToTuple(word.items[i + 1], Undefined)
         IN pushEntries(word, i + 1,
                        [tuples |-> Append(acc.tuples, made.tuple),
                         requests |-> acc.requests \o made.requests])
    ELSE acc

RECURSIVE pushNotExists(_, _, _)
pushNotExists(notExists, i, returnValue) ==
    IF i < sizeSync(notExists)
    THEN LET entry == applySync(notExists, i)
         IN pushNotExists(notExists, i + 1,
                          Append(returnValue, [morph |-> entry[1], tag |-> entry[2]]))
    ELSE returnValue

GetNotExists(onlySystemDic, word) ==
    /\ CanCall("getNotExists", <<onlySystemDic, word>>, Undefined)
    /\ obj.class = "Dictionary"
    /\ LET made == pushEntries(word, 0, [tuples |-> <<>>, requests |-> <<>>])
           known == IF onlySystemDic THEN {} ELSE dict
           notExists == RawSeq(SelectSeq(made.tuples, LAMBDA e : e \notin known))
       IN /\ call' = [op |-> "getNotExists", callback |-> Undefined,
                      arg |-> <<onlySystemDic, word>>]
          /\ log' = made.requests
                    \o <<Request("callStaticMethodSync",
                                 <<"scala.Predef", "genericArrayOps", made.tuples>>),
                         Request("toSeqSync", made.tuples),
                         Request("getNotExistsSync", <<onlySystemDic, made.tuples>>)>>
          /\ ret' = Returned(Arr(pushNotExists(notExists, 0, <<>>)))
    /\ got' = <<>>
    /\ cbs' = <<>>
    /\ UNCHANGED <<java, init, obj, pending, dict, lastSync>>

Next ==
    \/ Forget
    \/ \E callback \in BOOLEAN : Initialize(callback)
    \/ LoaderDone
    \/ \E t \in TypeArgs : NewTagger(t)
    \/ \E p \in TypeArgs, t \in {"undefined", "EUNJEON"} : NewParser(p, t)
    \/ \E t \in TypeArgs : NewSentenceSplitter(t)
    \/ \E t \in TypeArgs : NewDictionary(t)
    \/ \E p \in Texts, callback \in Callbacks : Tag(p, callback)
    \/ \E p \in Texts, callback \in Callbacks : TagSentence(p, callback)
    \/ \E p \in Texts \cup TaggedParagraphs, callback \in Callbacks : Parse(p, callback)
    \/ \E p \in Texts \cup TaggedSentences, callback \in Callbacks :
         ParseSentence(p, callback)
    \/ \E p \in Texts, callback \in Callbacks : Sentences(p, callback)
    \/ \E p \in Texts \cup TaggedSentences, callback \in Callbacks :
         SentencesByKoala(p, callback)
    \/ BackendCompletes
    \/ TaggingCompletes
    \/ \E m \in MorphArgs, t \in TagArgs, callback \in Callbacks :
         AddUserDictionary(m, t, callback)
    \/ \E w \in {Str(MorphNames[1])}, t \in TagArrays : Contains(w, t)
    \/ \E b \in BOOLEAN, w \in WordArrays : GetNotExists(b, w)

Spec == Init /\ [][Next]_vars

\* The same program, with a caller that compares the two modes.
DualNext == Next \/ NoteBlocking
DualSpec == Init /\ [][DualNext]_vars

(***************************************************************************)
(* Vocabulary of the properties.                                           *)
(***************************************************************************)
ModeOps == {"tag", "tagSentence", "parse", "parseSentence", "sentences",
            "sentencesByKoala"}
TagRequests == {"tag", "tagSync", "tagSentence", "tagSentenceSync"}
ParseRequests == {"parse", "parseSync"}
NonBlockingForms == {"tag", "tagSentence", "parse", "sentences", "callStaticMethod"}
BlockingForms == {"tagSync", "tagSentenceSync", "parseSync", "sentencesSync",
                  "callStaticMethodSync", "newInstanceSync", "addUserDictionarySync",
                  "toSetSync", "toSeqSync", "containsSync", "getNotExistsSync"}
DictionaryOps == {"addUserDictionary", "contains", "getNotExists"}
InCallbackMode == call.callback # Undefined
Issued(names) == {i \in 1..Len(log) : log[i].name \in names}

\* The call under way is a Parser's, the Parser has an auxiliary tagger and
\* the input is text.
PipelineOnText ==
    /\ call.op \in {"parse", "parseSentence"}
    /\ obj.class = "Parser" /\ obj.tagger
    /\ call.arg.type = "string"

(***************************************************************************)
(* C1: in the tag-then-parse pipeline on untagged input, in both modes and *)
(* for parse and parseSentence alike, when the tagging stage reports an    *)
(* error the parser backend is never invoked for that call and the caller  *)
(* receives that tagging error: the callback gets {error: <tagging error>, *)
(* result: []} in callback mode, the error is thrown in blocking mode.     *)
(***************************************************************************)
C1_TaggingErrorShortCircuits ==
    (PipelineOnText /\ Len(got) >= 1 /\ got[1].failed) =>
        /\ Issued(ParseRequests) = {}
        /\ Len(log) = 1 /\ log[1].name \in TagRequests
        /\ got[1].err.from \in TagRequests
        /\ IF InCallbackMode
           THEN cbs = <<CbArg(got[1].err, Arr(<<>>))>> /\ ret = Returned(Undefined)
           ELSE ret = Thrown(got[1].err) /\ cbs = <<>>

C1_Witness ==
    /\ PipelineOnText /\ call.op = "parse" /\ InCallbackMode
    /\ Len(got) = 1 /\ got[1].failed
    /\ Len(cbs) = 1 /\ cbs[1].error = got[1].err

(***************************************************************************)
(* C2: a callback-mode call of one of the six operations that issued its   *)
(* backend request has the caller's callback invoked exactly once: not at  *)
(* all while a backend request of the call is in flight, and exactly once  *)
(* from the moment none is, whichever stage failed or succeeded.           *)
(***************************************************************************)
C2_CallbackExactlyOnce ==
    (call.op \in ModeOps /\ InCallbackMode /\ ret.kind = "return") =>
        /\ Len(cbs) <= 1
        /\ Idle <=> Len(cbs) = 1

C2_Witness ==
    /\ PipelineOnText /\ call.op = "parseSentence" /\ InCallbackMode
    /\ Len(got) = 2 /\ got[2].failed
    /\ Idle /\ Len(cbs) = 1

(***************************************************************************)
(* C3: a backend failure reaches the caller through exactly one channel.   *)
(* In blocking mode it is thrown and no callback is involved; in callback  *)
(* mode the callback receives {error: <cause>, result: []} with the cause  *)
(* as the backend gave it and nothing is thrown.  An error reported to the *)
(* callback always comes with the empty result.                            *)
(***************************************************************************)
C3_FailureOneChannel ==
    /\ \A i \in 1..Len(got) :
         got[i].failed =>
            IF InCallbackMode
            THEN cbs = <<CbArg(got[i].err, Arr(<<>>))>> /\ ret = Returned(Undefined)
            ELSE ret = Thrown(got[i].err) /\ cbs = <<>>
    /\ \A j \in 1..Len(cbs) :
         cbs[j].error # False => cbs[j].result = Arr(<<>>)

C3_Witness ==
    /\ call.op = "tagSentence" /\ InCallbackMode
    /\ Len(got) = 1 /\ got[1].failed
    /\ cbs = <<CbArg(BackendError("tagSentence", "timeout"), Arr(<<>>))>>

(***************************************************************************)
(* C4: capability gate.  A Parser of a family other than KKMA or HANNANUM, *)
(* a SentenceSplitter of a family other than TWITTER or HANNANUM and a     *)
(* Dictionary of the family RHINO fail at construction with no backend     *)
(* call issued; every other family passes the gate.                        *)
(***************************************************************************)
Gated(op, supported) ==
    call.op = op =>
        IF call.arg[1] \in supported
        THEN ret # Thrown(AssertionError)
        ELSE ret = Thrown(AssertionError) /\ log = <<>>

\* C4: each constructor throws, with no backend call, exactly on the families
\* outside its supported set.
C4_CapabilityGate ==
    /\ Gated("new Parser", {"KKMA", "HANNANUM"})
    /\ Gated("new SentenceSplitter", {"TWITTER", "HANNANUM"})
    /\ Gated("new Dictionary", TypeArgs \ {"RHINO"})

C4_Witness ==
    /\ java = "jvm"
    /\ call.op = "new Parser" /\ call.arg[1] = "TWITTER"
    /\ ret = Thrown(AssertionError) /\ log = <<>>

(***************************************************************************)
(* C5: addUserDictionary(morph, tag) throws and makes no backend call when *)
(* morph and tag are arrays of different lengths or exactly one of them is *)
(* an array; the dictionary is then unchanged.                             *)
(***************************************************************************)
Mismatched(morph, tag) ==
    \/ (morph.type = "Array") # (tag.type = "Array")
    \/ /\ morph.type = "Array" /\ tag.type = "Array"
       /\ Len(morph.items) # Len(tag.items)

\* C5: a call of addUserDictionary with mismatched morph and tag throws, calls
\* no backend method and leaves the dictionary as it was.
C5_MismatchRejected ==
    [][(/\ call'.op = "addUserDictionary"
        /\ call.op = "none"
        /\ Mismatched(call'.arg[1], call'.arg[2]))
       => (ret' = Thrown(AssertionError) /\ log' = <<>> /\ dict' = dict)]_<<call.op, dict>>

C5_Witness ==
    /\ call.op = "addUserDictionary"
    /\ call.arg[1].type = "Array" /\ call.arg[2].type = "Array"
    /\ Len(call.arg[1].items) = 2 /\ Len(call.arg[2].items) = 1
    /\ ret = Thrown(AssertionError) /\ log = <<>>

(***************************************************************************)
(* C6: dual-mode equivalence.  When the backend answers the blocking and   *)
(* the non-blocking form of an operation with the same raw data, the value *)
(* the blocking call returns equals the result the callback receives from  *)
(* the callback-mode call with the same argument.                          *)
(***************************************************************************)
Compared ==
    /\ lastSync.op # "none"
    /\ call.op = lastSync.op /\ call.arg = lastSync.arg
    /\ InCallbackMode /\ Idle /\ Len(cbs) = 1
    /\ got = lastSync.got

\* C6: on the same raw data the callback receives the value the blocking call
\* returned.
C6_DualModeEquivalence == Compared => cbs[1].result = lastSync.val

\* What does hold: the callback's result is the blocking value itself for the
\* paragraph-level operations and the one-element array holding it for the
\* sentence-level ones.
C6_SentenceLevelWrapped ==
    Compared =>
        IF call.op \in {"tagSentence", "parseSentence"}
        THEN cbs[1].result = Arr(<<lastSync.val>>)
        ELSE cbs[1].result = lastSync.val

(***************************************************************************)
(* C7: a Parser with an auxiliary tagger that is given tagged input (a     *)
(* Sentence for parseSentence, a sequence of Sentences for parse) never    *)
(* invokes the tagging backend for that call and hands the parser backend  *)
(* exactly the retained references of the input, in input order; on any    *)
(* other input the tagging stage runs first.                               *)
(***************************************************************************)
AlreadyTagged(arg) ==
    \/ arg.type = "Sentence"
    \/ /\ arg.type = "Array"
       /\ \A i \in 1..Len(arg.items) : arg.items[i].type = "Sentence"

RetainedReferences(arg) ==
    IF arg.type = "Sentence"
    THEN arg.reference
    ELSE Arr([i \in 1..Len(arg.items) |-> arg.items[i].reference])

\* C7: tagged input goes to the parser backend as its retained references, with
\* no tagging request; any other input is tagged first.
C7_TaggedInputSkipsTagging ==
    (/\ call.op \in {"parse", "parseSentence"}
     /\ obj.class = "Parser" /\ obj.tagger
     /\ Len(log) >= 1) =>
        IF AlreadyTagged(call.arg)
        THEN /\ Issued(TagRequests) = {}
             /\ log[1].name \in ParseRequests
             /\ log[1].arg = RetainedReferences(call.arg)
        ELSE log[1].name \in TagRequests

\* The same, for the tagged inputs that hold at least one Sentence.
C7_NonEmptyTaggedInputSkipsTagging ==
    (/\ call.op \in {"parse", "parseSentence"}
     /\ obj.class = "Parser" /\ obj.tagger
     /\ Len(log) >= 1
     /\ call.arg # Arr(<<>>)) =>
        IF AlreadyTagged(call.arg)
        THEN /\ Issued(TagRequests) = {}
             /\ log[1].name \in ParseRequests
             /\ log[1].arg = RetainedReferences(call.arg)
        ELSE log[1].name \in TagRequests

(***************************************************************************)
(* C8: the mode of a call is chosen by the presence of the callback        *)
(* argument alone: with a callback only the non-blocking backend form is   *)
(* issued and the call returns no value, without one only the blocking     *)
(* (...Sync) form is issued, the value is returned and no callback is      *)
(* invoked.  As claimed, this holds of every operation family, the         *)
(* dictionary's included.                                                  *)
(***************************************************************************)
FollowsMode ==
    IF InCallbackMode
    THEN /\ Issued(BlockingForms) = {}
         /\ ret.kind = "return" => ret.val = Undefined
    ELSE /\ Issued(NonBlockingForms) = {}
         /\ cbs = <<>> /\ Idle
         /\ (ret.kind = "return" /\ call.op \in ModeOps) => ret.val # Undefined

\* C8: every operation, the dictionary's included, follows the mode its callback
\* argument selects.
C8_EveryFamilyDualMode ==
    call.op \in ModeOps \cup DictionaryOps => FollowsMode

\* C8 as amended: the rule holds of the tagging, parsing and sentence-splitting
\* operations; the dictionary operations have the blocking form only, whether
\* or not a function is passed after the arguments, and never invoke a callback.
C8_DualModeExceptDictionary ==
    /\ call.op \in ModeOps => FollowsMode
    /\ call.op \in DictionaryOps =>
          /\ Issued(NonBlockingForms) = {}
          /\ cbs = <<>> /\ Idle

C8_Witness ==
    /\ call.op = "addUserDictionary" /\ call.callback = Func
    /\ Issued(BlockingForms) # {}
    /\ ret = Returned(Undefined) /\ cbs = <<>>

(***************************************************************************)
(* C9: for a raw paragraph of N sentences the paragraph converter yields   *)
(* exactly N Sentences, the i-th made from the i-th raw sentence and its   *)
(* j-th Word from the j-th raw word, in input order, none dropped or       *)
(* duplicated.                                                             *)
(***************************************************************************)
\* The raw paragraph a finished paragraph-level call materialized, and the
\* value the caller received for it.
ParagraphDelivered ==
    /\ call.op \in {"tag", "parse", "sentencesByKoala"}
    /\ Idle /\ Len(got) >= 1 /\ ~got[Len(got)].failed
    /\ IF InCallbackMode THEN Len(cbs) = 1 ELSE ret.kind = "return"
RawDelivered == got[Len(got)].result
ValueDelivered == IF InCallbackMode THEN cbs[1].result ELSE ret.val

MadeFromWord(word, raw) ==
    /\ word.surface = raw.surface
    /\ Len(word.morphemes) = Len(raw.items)
    /\ \A k \in 1..Len(raw.items) :
         /\ word.morphemes[k].surface = raw.items[k].surface
         /\ word.morphemes[k].tag = raw.items[k].tag
         /\ word.morphemes[k].rawTag = raw.items[k].rawTag

MadeFromSentence(sentence, raw) ==
    /\ sentence.type = "Sentence"
    /\ sentence.reference = raw
    /\ Len(sentence.words) = Len(raw.items)
    /\ \A j \in 1..Len(raw.items) : MadeFromWord(sentence.words[j], raw.items[j])

\* C9: the value delivered for a raw paragraph holds one Sentence per raw
\* sentence, in order, each with its words and morphemes in order.
C9_ParagraphInOrder ==
    ParagraphDelivered =>
        /\ ValueDelivered.type = "Array"
        /\ Len(ValueDelivered.items) = Len(RawDelivered.items)
        /\ \A i \in 1..Len(RawDelivered.items) :
             MadeFromSentence(ValueDelivered.items[i], RawDelivered.items[i])

C9_Witness ==
    /\ ParagraphDelivered /\ call.op = "tag" /\ ~InCallbackMode
    /\ Len(ValueDelivered.items) = 2
    /\ Len(ValueDelivered.items[1].words) = 1
    /\ Len(ValueDelivered.items[2].words) = 2
    /\ ValueDelivered.items[1].reference # ValueDelivered.items[2].reference

(***************************************************************************)
(* C10: in every Word the converters produce, the morpheme at position i   *)
(* has index i, and the Word's index is its position in the Sentence's     *)
(* Word sequence, both counted from zero.                                  *)
(***************************************************************************)
SentencesIn(v) ==
    IF v.type = "Sentence" THEN {v}
    ELSE IF v.type = "Array"
    THEN {v.items[i] : i \in {k \in 1..Len(v.items) : v.items[k].type = "Sentence"}}
    ELSE {}

SentencesProduced ==
    SentencesIn(ret.val) \cup UNION {SentencesIn(cbs[j].result) : j \in 1..Len(cbs)}

DenseIndices(sentence) ==
    \A j \in 1..Len(sentence.words) :
        /\ sentence.words[j].index = j - 1
        /\ \A k \in 1..Len(sentence.words[j].morphemes) :
             sentence.words[j].morphemes[k].index = k - 1

\* C10: every Sentence produced has dense zero-based word and morpheme indices.
C10_IndicesDense ==
    call.op \in ModeOps => \A sentence \in SentencesProduced : DenseIndices(sentence)

C10_Witness ==
    /\ call.op = "parseSentence" /\ InCallbackMode
    /\ \E sentence \in SentencesProduced :
         /\ Len(sentence.words) = 2
         /\ Len(sentence.words[2].morphemes) = 2
         /\ sentence.words[2].index = 1
         /\ sentence.words[2].morphemes[2].index = 1

(***************************************************************************)
(* C11: every Relationship attached to a Word's dependents or to a         *)
(* Sentence's root list has a target that is a valid index into the words  *)
(* of the owning Sentence, whatever raw result the backend gave.           *)
(***************************************************************************)
ValidTarget(rel, n) == 0 <= rel.target /\ rel.target < n

EdgesOf(sentence) ==
    {sentence.root.dependents[k] : k \in 1..Len(sentence.root.dependents)}
    \cup UNION {{sentence.words[j].dependents[k] :
                    k \in 1..Len(sentence.words[j].dependents)} :
                 j \in 1..Len(sentence.words)}

RawEdgesOf(raw) ==
    {raw.root.deps.items[k] : k \in 1..Len(raw.root.deps.items)}
    \cup UNION {{raw.items[j].deps.items[k] : k \in 1..Len(raw.items[j].deps.items)} :
                 j \in 1..Len(raw.items)}

SameTargets(made, raw) ==
    /\ Len(made) = Len(raw.items)
    /\ \A k \in 1..Len(made) : made[k].target = raw.items[k].target

SuppliedTags == {call.arg[2].items[i] : i \in 1..Len(call.arg[2].items)}
DefaultTags == {Str("NNP"), Str("NNG")}
QueriedWith(posSet) ==
    /\ Len(log) >= 1
    /\ log[Len(log)] = Request("containsSync", <<call.arg[1], posSet>>)
    /\ ret = Returned(Bool(\E t \in posSet : <<call.arg[1], t>> \in dict))

\* C12: the query of a contains call carries the supplied tags, or the default
\* tags when none was supplied, and the call returns the backend's answer.
C12_ContainsDefaultTags ==
    call.op = "contains" =>
        QueriedWith(IF SuppliedTags = {} THEN DefaultTags ELSE SuppliedTags)

\* What does hold: the query always carries exactly the supplied tags, the
\* empty set included.
C12_ContainsSuppliedTags ==
    call.op = "contains" => QueriedWith(SuppliedTags)

(***************************************************************************)
(* C13: in the tag-then-parse pipeline on untagged input, in both modes,   *)
(* the request to the parser backend is issued only after the tagging      *)
(* request of the same call has completed, successfully, and carries what  *)
(* the tagging answered; in callback mode it is issued only by the tagging *)
(* request's completion function, after the call itself has returned.      *)
(***************************************************************************)
ParseIssued == PipelineOnText /\ Issued(ParseRequests) # {}

\* C13: a step that issues the pipeline's parse request finds the tagging of
\* the same call completed; in callback mode the step is that completion.
C13_ParseAfterTagging ==
    [][(ParseIssued' /\ ~ParseIssued) =>
          /\ Issued(ParseRequests)' = {2}
          /\ log'[1].name \in TagRequests
          /\ Len(got') >= 1 /\ ~got'[1].failed
          /\ log'[2].arg = got'[1].result
          /\ InCallbackMode' =>
                /\ pending.handler = "stageOne"
                /\ call' = call /\ ret = Returned(Undefined) /\ ret' = ret
                /\ Len(log) = 1 /\ got = <<>> /\ Len(got') = 1
      ]_<<call.op, Len(log), Len(got)>>

C13_Witness ==
    /\ PipelineOnText /\ call.op = "parse" /\ InCallbackMode
    /\ Len(log) = 2 /\ log[2].name = "parse"
    /\ Len(got) = 1 /\ ~got[1].failed
    /\ pending.handler = "final"

(***************************************************************************)
(* C14: in callback mode the caller's callback is not invoked by the call  *)
(* itself: when tag, tagSentence, parse, parseSentence, sentences or       *)
(* sentencesByKoala returns, the callback has not run, and it runs only in *)
(* a later step in which a non-blocking backend request of that call       *)
(* completes.                                                              *)
(***************************************************************************)
\* With no backend request in flight, the step of an operation is its call.
CallStarts == Idle

\* C14: the step that makes the call invokes no callback; a step that invokes
\* the callback is the completion of a backend request of a call that had
\* already returned.
C14_CallbackOnLaterTurn ==
    [][call'.op \in ModeOps =>
          IF CallStarts
          THEN cbs' = <<>>
          ELSE cbs' # cbs =>
                  /\ InCallbackMode /\ call' = call
                  /\ ret = Returned(Undefined) /\ ret' = ret
                  /\ pending # NoPending
                  /\ Len(got') = Len(got) + 1
      ]_<<call.op, pending, Len(cbs)>>

C14_Witness ==
    /\ call.op = "sentences" /\ InCallbackMode
    /\ ret = Returned(Undefined)
    /\ Idle /\ Len(got) = 1 /\ Len(cbs) = 1

(***************************************************************************)
(* C15: in the callback-mode pipeline, once tagging has succeeded, the     *)
(* parser backend is called with the raw object the tagging backend gave,  *)
(* not with Sentences made from it; nothing is delivered for the tagging   *)
(* stage; and when parsing succeeds the callback gets, once, the Sentences *)
(* made from the parser backend's output.                                  *)
(***************************************************************************)
IsRaw(v) == v.type \in {"JavaSeq", "JavaSentence"}

MadeFromParsed(value, raw) ==
    /\ value.type = "Array"
    /\ IF call.op = "parse"
       THEN /\ Len(value.items) = Len(raw.items)
            /\ \A i \in 1..Len(raw.items) :
                 MadeFromSentence(value.items[i], raw.items[i])
       ELSE /\ Len(value.items) = 1
            /\ MadeFromSentence(value.items[1], raw)

\* C15: the parse request carries the tagging stage's raw answer, and the one
\* result delivered is made from the parsing stage's answer.
C15_RawTaggingToParser ==
    (PipelineOnText /\ InCallbackMode /\ Len(got) >= 1 /\ ~got[1].failed) =>
        /\ Len(log) = 2 /\ log[1].name \in TagRequests
        /\ log[2] = Request("parse", got[1].result) /\ IsRaw(log[2].arg)
        /\ Len(got) = 1 => cbs = <<>> /\ pending.handler = "final"
        /\ (Len(got) = 2 /\ ~got[2].failed) =>
              /\ Len(cbs) = 1 /\ cbs[1].error = False
              /\ MadeFromParsed(cbs[1].result, got[2].result)

C15_Witness ==
    /\ PipelineOnText /\ call.op = "parseSentence" /\ InCallbackMode
    /\ Len(got) = 2 /\ ~got[1].failed /\ ~got[2].failed
    /\ Len(got[1].result.items) # Len(got[2].result.items)
    /\ Len(cbs) = 1
    /\ Len(cbs[1].result.items[1].words) = Len(got[2].result.items)
    /\ Len(got[2].result.items) = 2

(***************************************************************************)
(* C16: a compatibility or validation error is thrown by the call itself,  *)
(* with or without a callback: sentencesByKoala given a paragraph that is  *)
(* not a Sentence, like addUserDictionary given mismatched morph and tag   *)
(* and a constructor given an unsupported family, throws before any        *)
(* backend call is issued, and the callback is never invoked.              *)
(***************************************************************************)
InvalidInput ==
    \/ call.op = "sentencesByKoala" /\ call.arg.type # "Sentence"
    \/ call.op = "addUserDictionary" /\ Mismatched(call.arg[1], call.arg[2])

ThrownLocally ==
    /\ ret = Thrown(AssertionError)
    /\ log = <<>> /\ got = <<>>
    /\ cbs = <<>> /\ Idle

\* C16: invalid input makes the call throw at once in either mode, and a call
\* that threw the assertion error issued no backend call and no callback.
C16_ValidationThrowsSynchronously ==
    /\ InvalidInput => ThrownLocally
    /\ ret = Thrown(AssertionError) => ThrownLocally

C16_Witness ==
    /\ call.op = "sentencesByKoala" /\ call.arg.type = "string"
    /\ InCallbackMode /\ java = "jvm"
    /\ ThrownLocally

(***************************************************************************)
(* C17: edge cases of the converters, in both modes.  A raw paragraph of   *)
(* size zero yields the empty array of Sentences, and a raw sentence with  *)
(* no words yields a Sentence with no Words and no root relationships;     *)
(* neither is an error.                                                    *)
(***************************************************************************)
\* A call whose last backend request succeeded and that has nothing in flight.
Answered(ops) ==
    /\ call.op \in ops
    /\ Idle /\ Len(got) >= 1 /\ ~got[Len(got)].failed

DeliveredWithoutError ==
    IF InCallbackMode
    THEN Len(cbs) = 1 /\ cbs[1].error = False /\ ret = Returned(Undefined)
    ELSE ret.kind = "return" /\ cbs = <<>>

EmptySentence(sentence, raw) ==
    /\ sentence.type = "Sentence" /\ sentence.reference = raw
    /\ sentence.words = <<>>
    /\ sentence.root.dependents = <<>>

\* The Sentence a sentence-level call hands over: the value returned, or the
\* only item of the callback's result.
SentenceDelivered ==
    IF InCallbackMode THEN cbs[1].result.items[1] ELSE ret.val

\* C17: an empty raw paragraph is delivered as the empty array and a raw
\* sentence without words as a Sentence without Words and root relationships,
\* with no error, in either mode.
C17_EmptyResultsMaterialize ==
    /\ Answered({"tag", "parse", "sentencesByKoala"}) =>
          /\ DeliveredWithoutError
          /\ Len(RawDelivered.items) = 0 => ValueDelivered = Arr(<<>>)
          /\ \A i \in 1..Len(RawDelivered.items) :
               Len(RawDelivered.items[i].items) = 0 =>
                  EmptySentence(ValueDelivered.items[i], RawDelivered.items[i])
    /\ Answered({"tagSentence", "parseSentence"}) =>
          /\ DeliveredWithoutError
          /\ Len(RawDelivered.items) = 0 =>
                EmptySentence(SentenceDelivered, RawDelivered)

C17_Witness ==
    /\ Answered({"tag"}) /\ InCallbackMode
    /\ Len(RawDelivered.items) = 0
    /\ cbs = <<CbArg(False, Arr(<<>>))>>

\* The other cases of C17 occur as well: a sentence without words, alone in
\* blocking mode and inside a paragraph.
C17_ZeroWordsWitness ==
    /\ Answered({"parseSentence"}) /\ ~InCallbackMode
    /\ Len(RawDelivered.items) = 0
    /\ EmptySentence(ret.val, RawDelivered)

C17_ZeroWordsInParagraphWitness ==
    /\ Answered({"parse"}) /\ InCallbackMode
    /\ Len(RawDelivered.items) = 2
    /\ Len(RawDelivered.items[1].items) = 0
    /\ EmptySentence(cbs[1].result.items[1], RawDelivered.items[1])

(***************************************************************************)
(* C18: in the callback-mode pipeline, when tagging succeeds and parsing   *)
(* then fails, the callback receives {error: <the parsing error>,          *)
(* result: []} once; no Sentence is made, and nothing of what the tagging  *)
(* stage answered reaches the caller.                                      *)
(***************************************************************************)
ParsingFailedAfterTagging ==
    /\ PipelineOnText /\ InCallbackMode
    /\ Len(got) = 2 /\ ~got[1].failed /\ got[2].failed

\* C18: the caller gets the parsing error with the empty result, and no
\* Sentence.
C18_ParsingErrorAfterTagging ==
    ParsingFailedAfterTagging =>
        /\ cbs = <<CbArg(got[2].err, Arr(<<>>))>>
        /\ got[2].err.from \in ParseRequests
        /\ ret = Returned(Undefined) /\ Idle
        /\ SentencesProduced = {}

C18_Witness ==
    /\ ParsingFailedAfterTagging /\ call.op = "parse"
    /\ Len(got[1].result.items) = 2
    /\ cbs = <<CbArg(BackendError("parse", "jvm"), Arr(<<>>))>>

(***************************************************************************)
(* C19: initialization ordering.  The backend handle is installed only by  *)
(* the loader's completion function inside initialize; the callback of     *)
(* initialize runs only once the handle is installed; and until then a     *)
(* construction of a Tagger, Parser, SentenceSplitter or Dictionary that   *)
(* passes its capability gate fails without reaching a backend, so that no *)
(* backend call precedes the completion of initialize.                     *)
(***************************************************************************)
Constructors == {"new Tagger", "new Parser", "new SentenceSplitter", "new Dictionary"}

GatePassed ==
    CASE call.op = "new Tagger" -> TRUE
      [] call.op = "new Parser" -> call.arg[1] \in {"KKMA", "HANNANUM"}
      [] call.op = "new SentenceSplitter" -> call.arg[1] \in {"TWITTER", "HANNANUM"}
      [] call.op = "new Dictionary" -> call.arg[1] # "RHINO"

\* C19: the handle is in place exactly from the loader's completion on, the
\* callback of initialize has seen it in place, and before that no instance
\* exists and no backend call was issued.
C19_InitializationOrdering ==
    /\ java = "jvm" <=> init.state = "done"
    /\ init.calls > 0 =>
          /\ init.callback /\ init.calls = 1
          /\ init.saw = "jvm" /\ java = "jvm"
    /\ java = "empty" =>
          /\ obj = NoObj
          /\ log = <<>> /\ got = <<>> /\ cbs = <<>> /\ Idle
          /\ call.op \in Constructors =>
                ret = IF GatePassed THEN Thrown(TypeError) ELSE Thrown(AssertionError)
          /\ call.op \in ModeOps => ret.kind = "throw"

C19_Witness ==
    /\ init.state = "loading" /\ java = "empty"
    /\ call.op = "new Parser" /\ call.arg[1] = "KKMA"
    /\ ret = Thrown(TypeError) /\ log = <<>> /\ obj = NoObj

\* The other case of C19 occurs as well: the callback of initialize has run.
C19_CallbackWitness ==
    /\ init.state = "done" /\ init.calls = 1 /\ init.saw = "jvm"
    /\ obj.class = "Tagger"

====
